---- MODULE Spec2Model ----
(***************************************************************************)
(* kicaq: conversion of KiCad board shapes into a CadQuery sketch.         *)
(* Model of Board.p, Board.convert_shape and bspline of kicaq/__init__.py, *)
(* together with the parts of cq.Sketch and of the warnings module that    *)
(* convert_shape drives.                                                   *)
(***************************************************************************)
EXTENDS Integers, Sequences, FiniteSets, TLC

(* ------------------------------ bounds -------------------------------- *)
MaxShapes == 3      \* longest shape list handed to convert_shape
MaxVerts == 3       \* vertex count of the non-empty polygon
MaxPoints == 5      \* longest point list handed to bspline directly

(* --------------------------- unit conversion --------------------------- *)
IU_PER_MM == 1000000

Abs(n) == IF n < 0 THEN -n ELSE n

RECURSIVE GCD(_, _)
GCD(a, b) == IF b = 0 THEN a ELSE GCD(b, a % b)

\* A millimetre value is the exact quotient n/d in lowest terms, <<num, den>>.
Quot(n, d) == LET g == GCD(Abs(n), d) IN <<n \div g, d \div g>>

Neg(r) == <<-r[1], r[2]>>

iu2mm(x) == Quot(x, IU_PER_MM)

(* ----------------------------- board data ------------------------------ *)
Half == IU_PER_MM \div 2

Pt(a, b) == [x |-> a * Half, y |-> b * Half]

Origins == {Pt(0, 0), Pt(1, -2)}

OpenKinds == {"ARC", "SEGMENT", "BEZIER"}
FullKinds == {"CIRCLE", "RECT", "POLY"}
SupportedKinds == OpenKinds \cup FullKinds
UnsupportedKinds == {"LAST", "UNDEFINED"}

Vertex(k) == Pt(k, (k * k) % 3)

PolyOf(n) == [kind |-> "POLY", verts |-> [k \in 1..n |-> Vertex(k)]]

ShapePool ==
    { [kind |-> "ARC", start |-> Pt(0, 0), mid |-> Pt(1, 1), end |-> Pt(2, 0)],
      [kind |-> "SEGMENT", start |-> Pt(2, 0), end |-> Pt(2, 3)],
      [kind |-> "BEZIER", start |-> Pt(0, 0), c1 |-> Pt(1, -1), c2 |-> Pt(3, 4),
                          end |-> Pt(2, 3)],
      [kind |-> "CIRCLE", center |-> Pt(3, 1), radius |-> 3 * Half],
      [kind |-> "RECT", start |-> Pt(4, 1), end |-> Pt(1, 3), center |-> Pt(2, 2)],
      [kind |-> "RECT", start |-> Pt(1, 3), end |-> Pt(4, 1), center |-> Pt(2, 2)] }
    \cup { PolyOf(n) : n \in {0, MaxVerts} }
    \cup { [kind |-> k] : k \in UnsupportedKinds }

RECURSIVE SeqsUpTo(_, _)
SeqsUpTo(S, n) ==
    IF n = 0 THEN {<<>>}
    ELSE LET prev == SeqsUpTo(S, n - 1)
         IN prev \cup { Append(s, e) : s \in { t \in prev : Len(t) = n - 1 }, e \in S }

Inputs == SeqsUpTo(ShapePool, MaxShapes)

(* ------------------------------- state --------------------------------- *)
VARIABLES
    center,     \* Board.center, the aux origin read at construction
    registry,   \* the module's __warningregistry__: warnings already shown
    pc,         \* position of the current convert_shape invocation
    shapes,     \* its argument
    i,          \* 1-based index of the shape the for loop dispatches next
    line,       \* local `line`
    full,       \* local `full`
    sketch,     \* local `sketch`
    emitted,    \* messages passed to warnings.warn by this invocation
    delivered,  \* messages this invocation got through to warn_with_traceback
    handed,     \* coordinates handed to the kernel by this invocation, in order
    closures,   \* number of assemble() calls of this invocation
    result,     \* what the invocation gave its caller
    curve       \* outcome of the latest direct bspline call

vars == <<center, registry, pc, shapes, i, line, full, sketch, emitted,
          delivered, handed, closures, result, curve>>

(* --------------------------- Board.p (27-29) ---------------------------- *)
pNoFlip(c, l) ==
    LET relx == l.x - c.x
        rely == l.y - c.y
    IN <<iu2mm(relx), iu2mm(rely)>>

p(c, l) ==
    LET relx == l.x - c.x
        rely == l.y - c.y
    IN <<iu2mm(relx), Neg(iu2mm(rely))>>

(* ------------------------------ cq.Sketch ------------------------------ *)
Zero == Quot(0, 1)
IdentityLoc == <<Zero, Zero>>

NewSketch == [faces |-> {}, edges |-> <<>>, selection |-> <<>>]

\* Sketch.each: the callback runs once per selected location, or once at the
\* identity location when nothing is selected; mode "a" fuses into _faces.
each(sk, res) ==
    LET locs == IF sk.selection # <<>> THEN sk.selection ELSE <<IdentityLoc>>
    IN [sk EXCEPT !.faces = @ \cup { [region |-> res, at |-> locs[k]] : k \in DOMAIN locs }]

push(sk, locs) == [sk EXCEPT !.selection = locs]

reset(sk) == [sk EXCEPT !.selection = <<>>]

edge(sk, e) == [sk EXCEPT !.edges = Append(@, e)]

arc(sk, p1, p2, p3) == edge(sk, [kind |-> "arc", pts |-> <<p1, p2, p3>>])

segment(sk, p1, p2) == edge(sk, [kind |-> "line", pts |-> <<p1, p2>>])

circle(sk, r) == each(sk, [kind |-> "circle", dims |-> <<r>>])

rect(sk, w, h) == each(sk, [kind |-> "rect", dims |-> <<w, h>>])

polygon(sk, pts) == each(sk, [kind |-> "polygon", dims |-> pts])

assembleChainOnly(sk) ==
    [each(sk, [kind |-> "face", dims |-> sk.edges]) EXCEPT
        !.faces = { f \in @ : f.region.kind = "face" }]

assemble(sk) == each(sk, [kind |-> "face", dims |-> sk.edges])

(* --------------------------- bspline (132-143) -------------------------- *)
bsplineReversed(points) ==
    IF Len(points) # 4
    THEN [ok |-> FALSE, err |-> "AssertionError", built |-> <<>>]
    ELSE [ok |-> TRUE,
          built |-> <<"pnts", "knots", "mults", "curve", "edge">>,
          edge |-> [kind |-> "bspline",
                    pts |-> [k \in 1..4 |-> points[5 - k]],
                    knots |-> <<0, 1>>, mults |-> <<4, 4>>, degree |-> 3]]

bspline(points) ==
    IF Len(points) # 4
    THEN [ok |-> FALSE, err |-> "AssertionError", built |-> <<>>]
    ELSE [ok |-> TRUE,
          built |-> <<"pnts", "knots", "mults", "curve", "edge">>,
          edge |-> [kind |-> "bspline",
                    pts |-> [k \in 1..4 |-> points[k]],
                    knots |-> <<0, 1>>, mults |-> <<4, 4>>, degree |-> 3]]

(* ---------------------- warnings.warn (127, 129) ------------------------ *)
AMBIGUOUS == "convert_shape: both complete and incomplete shapes used, shape may be undefined"
MULTIPLE == "convert_shape: more than 1 complete shapes used, shape may be undefined"

\* warnings.warn under the interpreter's default filter: a UserWarning is
\* handed to warnings.showwarning (here warn_with_traceback, line 18) the
\* first time its text is raised from a given line, and recorded in the
\* module's __warningregistry__; later occurrences are dropped.
warnShown(reg, msg) == msg \notin reg

warnRegistry(reg, msg) == reg \cup {msg}

(* ----------------- convert_shape: its decisions (96-130) ---------------- *)
minmax(a, b) == <<IF a <= b THEN a ELSE b, IF a <= b THEN b ELSE a>>

RectDimsSigned(s) == <<iu2mm(s.end.x - s.start.x), iu2mm(s.end.y - s.start.y)>>

RectDims(s) ==
    LET xs == minmax(s.start.x, s.end.x)
        ys == minmax(s.start.y, s.end.y)
    IN <<iu2mm(xs[2] - xs[1]), iu2mm(ys[2] - ys[1])>>

AmbiguousEither(f, l) == f > 0 \/ l

Ambiguous(f, l) == f > 0 /\ l

Multiple(f) == f > 1

RetAlwaysAssemble(l, sk) == [sketch |-> assemble(sk), closures |-> 1]

Ret(l, sk) ==
    IF l THEN [sketch |-> assemble(sk), closures |-> 1]
         ELSE [sketch |-> sk, closures |-> 0]

BezierPoints(c, s) == <<p(c, s.start), p(c, s.c1), p(c, s.c2), p(c, s.end)>>

PolyPoints(c, s) == [k \in 1..Len(s.verts) |-> p(c, s.verts[k])]

(* ------------------------------ results -------------------------------- *)
NoResult == [kind |-> "none"]
Returned(sk) == [kind |-> "sketch", sketch |-> sk]
Raised(type, detail) == [kind |-> "error", type |-> type, detail |-> detail]

NoCurve == [called |-> FALSE, points |-> <<>>, out |-> bspline(<<>>)]

MappedPool == { p(Pt(0, 0), Pt(1, 2)), p(Pt(0, 0), Pt(-3, 0)) }

PointLists == SeqsUpTo(MappedPool, MaxPoints)

(* ------------------------------- Init ---------------------------------- *)
Init ==
    /\ center \in Origins
    /\ registry = {}
    /\ pc = "idle"
    /\ shapes = <<>>
    /\ i = 1
    /\ line = FALSE
    /\ full = 0
    /\ sketch = NewSketch
    /\ emitted = <<>>
    /\ delivered = <<>>
    /\ handed = <<>>
    /\ closures = 0
    /\ result = NoResult
    /\ curve = NoCurve

(* ------------------------------ actions -------------------------------- *)
\* A direct call of the module-level function bspline; its outcome is with
\* the caller until Exit.
BsplineCall ==
    /\ pc = "idle"
    /\ pc' = "curve"
    /\ \E points \in PointLists :
          curve' = [called |-> TRUE, points |-> points, out |-> bspline(points)]
    /\ UNCHANGED <<center, registry, shapes, i, line, full, sketch, emitted,
                   delivered, handed, closures, result>>

\* Entry of convert_shape (96-99): fresh locals.
Call ==
    /\ pc = "idle"
    /\ \E input \in Inputs : shapes' = input
    /\ pc' = "loop"
    /\ i' = 1
    /\ line' = FALSE
    /\ full' = 0
    /\ sketch' = NewSketch
    /\ UNCHANGED <<center, registry, emitted, delivered, handed, closures,
                   result, curve>>

\* The caller is done with the outcome and the frame is dropped; only the
\* registry of the warnings module and the board's origin outlive the call.
Exit ==
    /\ pc \in {"done", "raised", "curve"}
    /\ pc' = "idle"
    /\ shapes' = <<>>
    /\ i' = 1
    /\ line' = FALSE
    /\ full' = 0
    /\ sketch' = NewSketch
    /\ emitted' = <<>>
    /\ delivered' = <<>>
    /\ handed' = <<>>
    /\ closures' = 0
    /\ result' = NoResult
    /\ curve' = NoCurve
    /\ UNCHANGED <<center, registry>>

Dispatching(kinds) ==
    /\ pc = "loop"
    /\ i <= Len(shapes)
    /\ shapes[i].kind \in kinds

Advance ==
    /\ i' = i + 1
    /\ UNCHANGED <<center, registry, pc, shapes, emitted, delivered, closures,
                   result, curve>>

Abort(type, detail) ==
    /\ pc' = "raised"
    /\ result' = Raised(type, detail)
    /\ UNCHANGED <<center, registry, shapes, i, full, sketch, emitted,
                   delivered, handed, closures, curve>>

DispatchArc ==
    /\ Dispatching({"ARC"})
    /\ LET s == shapes[i]
           pts == <<p(center, s.start), p(center, s.mid), p(center, s.end)>>
       IN /\ line' = TRUE
          /\ sketch' = arc(sketch, pts[1], pts[2], pts[3])
          /\ handed' = handed \o pts
    /\ full' = full
    /\ Advance

DispatchSegment ==
    /\ Dispatching({"SEGMENT"})
    /\ LET s == shapes[i]
           pts == <<p(center, s.start), p(center, s.end)>>
       IN /\ line' = TRUE
          /\ sketch' = segment(sketch, pts[1], pts[2])
          /\ handed' = handed \o pts
    /\ full' = full
    /\ Advance

DispatchCircle ==
    /\ Dispatching({"CIRCLE"})
    /\ LET s == shapes[i]
           c == p(center, s.center)
       IN /\ full' = full + 1
          /\ sketch' = circle(push(sketch, <<c>>), iu2mm(s.radius))
          /\ handed' = Append(handed, c)
    /\ line' = line
    /\ Advance

DispatchRect ==
    /\ Dispatching({"RECT"})
    /\ LET s == shapes[i]
           c == p(center, s.center)
           wh == RectDims(s)
       IN /\ full' = full + 1
          /\ sketch' = reset(rect(push(sketch, <<c>>), wh[1], wh[2]))
          /\ handed' = Append(handed, c)
    /\ line' = line
    /\ Advance

DispatchBezier ==
    /\ Dispatching({"BEZIER"})
    /\ LET pts == BezierPoints(center, shapes[i])
           made == bspline(pts)
       IN IF made.ok
          THEN /\ line' = TRUE
               /\ sketch' = edge(sketch, made.edge)
               /\ handed' = handed \o pts
               /\ full' = full
               /\ Advance
          ELSE \* the assertion of bspline leaves the call, after line = True
               /\ line' = TRUE
               /\ Abort(made.err, "")

DispatchPoly ==
    /\ Dispatching({"POLY"})
    /\ LET points == PolyPoints(center, shapes[i])
       IN IF points # <<>>
          THEN /\ full' = full + 1
               /\ sketch' = polygon(sketch, Append(points, points[1]))
               /\ handed' = handed \o Append(points, points[1])
               /\ line' = line
               /\ Advance
          ELSE \* points[0] of an empty list (123), after full += 1 (120)
               /\ pc' = "raised"
               /\ result' = Raised("IndexError", "list index out of range")
               /\ full' = full + 1
               /\ UNCHANGED <<center, registry, shapes, i, line, sketch, emitted,
                              delivered, handed, closures, curve>>

DispatchOther ==
    /\ Dispatching(UnsupportedKinds)
    /\ pc' = "raised"
    /\ result' = Raised("NotImplementedError", shapes[i].kind)
    /\ UNCHANGED <<center, registry, shapes, i, line, full, sketch, emitted,
                   delivered, handed, closures, curve>>

LoopEnd ==
    /\ pc = "loop"
    /\ i > Len(shapes)
    /\ pc' = "warn1"
    /\ UNCHANGED <<center, registry, shapes, i, line, full, sketch, emitted,
                   delivered, handed, closures, result, curve>>

Warn(msg) ==
    /\ emitted' = Append(emitted, msg)
    /\ delivered' = IF warnShown(registry, msg) THEN Append(delivered, msg) ELSE delivered
    /\ registry' = warnRegistry(registry, msg)

WarnAmbiguous ==
    /\ pc = "warn1"
    /\ pc' = "warn2"
    /\ IF Ambiguous(full, line)
       THEN Warn(AMBIGUOUS)
       ELSE UNCHANGED <<emitted, delivered, registry>>
    /\ UNCHANGED <<center, shapes, i, line, full, sketch, handed, closures,
                   result, curve>>

WarnMultiple ==
    /\ pc = "warn2"
    /\ pc' = "ret"
    /\ IF Multiple(full)
       THEN Warn(MULTIPLE)
       ELSE UNCHANGED <<emitted, delivered, registry>>
    /\ UNCHANGED <<center, shapes, i, line, full, sketch, handed, closures,
                   result, curve>>

Return ==
    /\ pc = "ret"
    /\ pc' = "done"
    /\ LET r == Ret(line, sketch)
       IN /\ sketch' = r.sketch
          /\ closures' = closures + r.closures
          /\ result' = Returned(r.sketch)
    /\ UNCHANGED <<center, registry, shapes, i, line, full, emitted, delivered,
                   handed, curve>>

Next ==
    \/ BsplineCall
    \/ Call
    \/ DispatchArc
    \/ DispatchSegment
    \/ DispatchCircle
    \/ DispatchRect
    \/ DispatchBezier
    \/ DispatchPoly
    \/ DispatchOther
    \/ LoopEnd
    \/ WarnAmbiguous
    \/ WarnMultiple
    \/ Return
    \/ Exit

Spec == Init /\ [][Next]_vars

(* ===================== what the properties talk about ================== *)
InCall == pc \in {"loop", "warn1", "warn2", "ret", "done", "raised"}
AtEnd == pc \in {"warn1", "warn2", "ret", "done"}

HasOpen(n) == \E k \in 1..n : shapes[k].kind \in OpenKinds
NumFull(n) == Cardinality({ k \in 1..n : shapes[k].kind \in FullKinds })
HasUnsupported == \E k \in 1..Len(shapes) : shapes[k].kind \in UnsupportedKinds
FirstUnsupported ==
    CHOOSE k \in 1..Len(shapes) :
        /\ shapes[k].kind \in UnsupportedKinds
        /\ \A j \in 1..(k - 1) : shapes[j].kind \notin UnsupportedKinds

\* (mm(q.x - o.x), -mm(q.y - o.y)) written out on exact quotients.
MapOf(q) == <<Quot(q.x - center.x, IU_PER_MM), Quot(-(q.y - center.y), IU_PER_MM)>>

MapSeq(qs) == [k \in 1..Len(qs) |-> MapOf(qs[k])]

\* The board points of a shape, in the order the dispatch reads them.
BoardPoints(s) ==
    CASE s.kind = "ARC" -> <<s.start, s.mid, s.end>>
      [] s.kind = "SEGMENT" -> <<s.start, s.end>>
      [] s.kind = "BEZIER" -> <<s.start, s.c1, s.c2, s.end>>
      [] s.kind \in {"CIRCLE", "RECT"} -> <<s.center>>
      [] s.kind = "POLY" -> IF s.verts = <<>> THEN <<>> ELSE Append(s.verts, s.verts[1])
      [] OTHER -> <<>>

RECURSIVE PointsOfPrefix(_)
PointsOfPrefix(n) ==
    IF n = 0 THEN <<>> ELSE PointsOfPrefix(n - 1) \o MapSeq(BoardPoints(shapes[n]))

\* The open edge each OPEN shape stands for.
EdgeOf(s) ==
    CASE s.kind = "ARC" -> [kind |-> "arc", pts |-> MapSeq(BoardPoints(s))]
      [] s.kind = "SEGMENT" -> [kind |-> "line", pts |-> MapSeq(BoardPoints(s))]
      [] s.kind = "BEZIER" ->
            [kind |-> "bspline", pts |-> MapSeq(BoardPoints(s)),
             knots |-> <<0, 1>>, mults |-> <<4, 4>>, degree |-> 3]

RECURSIVE ChainOfPrefix(_)
ChainOfPrefix(n) ==
    IF n = 0 THEN <<>>
    ELSE IF shapes[n].kind \in OpenKinds
         THEN Append(ChainOfPrefix(n - 1), EdgeOf(shapes[n]))
         ELSE ChainOfPrefix(n - 1)

\* The geometry of the region each FULL shape stands for, and where the
\* shape's own fields put it.
RegionOf(s) ==
    CASE s.kind = "CIRCLE" -> [kind |-> "circle", dims |-> <<Quot(s.radius, IU_PER_MM)>>]
      [] s.kind = "RECT" ->
            [kind |-> "rect",
             dims |-> <<Quot(Abs(s.start.x - s.end.x), IU_PER_MM),
                        Quot(Abs(s.start.y - s.end.y), IU_PER_MM)>>]
      [] s.kind = "POLY" -> [kind |-> "polygon", dims |-> MapSeq(BoardPoints(s))]

PlaceOf(s) == IF s.kind = "POLY" THEN IdentityLoc ELSE MapOf(s.center)

OwnFace(s) == [region |-> RegionOf(s), at |-> PlaceOf(s)]

FacesOfKind(sk, kind) == { f \in sk.faces : f.region.kind = kind }

(* ================================ C1 =================================== *)
\* C1: in every invocation the flag `line` is true exactly when an OPEN shape
\* is among the shapes dispatched so far (so it never falls back once set,
\* wherever the OPEN shape stood and whatever follows it); no closure step
\* runs before the return; and at the return assemble has run exactly once
\* if the input holds an OPEN shape and not at all otherwise, in which case
\* the accumulated sketch is returned as it is.
C1_BranchDecidedByHasOpen ==
    /\ InCall => line = HasOpen(i - 1)
    /\ pc \in {"loop", "warn1", "warn2", "ret", "raised"} =>
          /\ closures = 0
          /\ FacesOfKind(sketch, "face") = {}
    /\ pc = "done" =>
          /\ result = Returned(sketch)
          /\ closures = IF HasOpen(Len(shapes)) THEN 1 ELSE 0
          /\ HasOpen(Len(shapes)) => Cardinality(FacesOfKind(sketch, "face")) = 1
          /\ ~HasOpen(Len(shapes)) => FacesOfKind(sketch, "face") = {}

C1_Witness ==
    /\ pc = "done"
    /\ Len(shapes) = 3
    /\ shapes[1].kind = "CIRCLE"
    /\ shapes[2].kind = "ARC"
    /\ shapes[3].kind = "RECT"
    /\ closures = 1

(* ================================ C4 =================================== *)
AdvisoriesFor(nfull, open) ==
    (IF nfull > 0 /\ open THEN <<AMBIGUOUS>> ELSE <<>>)
        \o (IF nfull > 1 THEN <<MULTIPLE>> ELSE <<>>)

\* C4: nothing is passed to warnings.warn before every shape is dispatched;
\* in an invocation that got to the end of its input full is the number of
\* FULL shapes and line tells whether an OPEN shape occurred, the ambiguity
\* advisory is raised iff full > 0 and line, then the multiple-full advisory
\* iff full > 1 (both may be raised), and the call still returns its sketch.
C4_AdvisoriesAtEnd ==
    /\ pc \in {"loop", "raised", "warn1"} => emitted = <<>>
    /\ AtEnd =>
          /\ full = NumFull(Len(shapes))
          /\ line = HasOpen(Len(shapes))
    /\ pc = "warn2" =>
          emitted = IF full > 0 /\ line THEN <<AMBIGUOUS>> ELSE <<>>
    /\ pc \in {"ret", "done"} => emitted = AdvisoriesFor(full, line)
    /\ pc = "raised" => i <= Len(shapes)
    /\ pc = "done" => result.kind = "sketch"

C4_Witness ==
    /\ pc = "done"
    /\ emitted = <<AMBIGUOUS, MULTIPLE>>
    /\ result.kind = "sketch"

(* ================================ C5 =================================== *)
SketchCoords(sk) ==
    UNION { { sk.edges[k].pts[j] : j \in DOMAIN sk.edges[k].pts } : k \in DOMAIN sk.edges }
    \cup { f.at : f \in sk.faces }
    \cup UNION { { f.region.dims[j] : j \in DOMAIN f.region.dims } :
                 f \in FacesOfKind(sk, "polygon") }

\* C5: Board.p sends the origin to (0, 0), and the coordinates convert_shape
\* hands to the kernel are, in order, exactly (mm(q.x - o.x), -mm(q.y - o.y))
\* of the board points q of the shapes dispatched so far (arc start, mid, end;
\* segment ends; circle and rect centers; the four Bezier points; the polygon
\* vertices and the repeated first one), all with the one origin o; every
\* coordinate in the sketch is one of those, or the identity location.
C5_OnlyMappedCoordinates ==
    /\ p(center, center) = <<Zero, Zero>>
    /\ InCall =>
          /\ handed = PointsOfPrefix(i - 1)
          /\ SketchCoords(sketch) \subseteq
                { handed[k] : k \in DOMAIN handed } \cup {IdentityLoc}

C5_Witness ==
    /\ pc = "done"
    /\ center # Pt(0, 0)
    /\ Len(shapes) = 3
    /\ shapes[1].kind = "ARC"
    /\ shapes[2].kind = "BEZIER"
    /\ shapes[3].kind = "POLY"
    /\ Len(handed) = 3 + 4 + MaxVerts + 1

(* ================================ C6 =================================== *)
SwapCorners(s) == [s EXCEPT !.start = s.end, !.end = s.start]
MirrorX(s) == [s EXCEPT !.start.x = s.end.x, !.end.x = s.start.x]
MirrorY(s) == [s EXCEPT !.start.y = s.end.y, !.end.y = s.start.y]

RectAt(k) == shapes[k].kind = "RECT"

\* C6: the rectangle regions on the sketch are exactly one per Rect shape
\* dispatched, of width mm(|start.x - end.x|) and height mm(|start.y - end.y|),
\* both non-negative, at the mapped declared center; the dimensions computed
\* for the shape with its corners swapped, or mirrored across either axis,
\* are the same; and the dispatch adds exactly one to full.
C6_RectFromExtrema ==
    /\ pc \in {"loop", "warn1", "warn2", "ret", "done"} =>
          /\ FacesOfKind(sketch, "rect") = { OwnFace(shapes[k]) : k \in { j \in 1..(i - 1) : RectAt(j) } }
          /\ \A f \in FacesOfKind(sketch, "rect") :
                f.region.dims[1][1] >= 0 /\ f.region.dims[2][1] >= 0
          /\ full = NumFull(i - 1)
    /\ pc = "loop" /\ i > 1 /\ RectAt(i - 1) =>
          LET s == shapes[i - 1]
          IN /\ full = NumFull(i - 2) + 1
             /\ \A v \in {SwapCorners(s), MirrorX(s), MirrorY(s)} :
                   /\ RectDims(v) = RegionOf(s).dims
                   /\ p(center, v.center) = PlaceOf(s)

C6_Witness ==
    /\ pc = "loop"
    /\ i = 3
    /\ RectAt(1) /\ RectAt(2)
    /\ shapes[1].start.x > shapes[1].end.x
    /\ shapes[2].start.x < shapes[2].end.x
    /\ full = 2

(* ================================ C8 =================================== *)
BsplineEdges(sk) == SelectSeq(sk.edges, LAMBDA e : e.kind = "bspline")

RECURSIVE BezierEdgesOfPrefix(_)
BezierEdgesOfPrefix(n) ==
    IF n = 0 THEN <<>>
    ELSE IF shapes[n].kind = "BEZIER"
         THEN Append(BezierEdgesOfPrefix(n - 1), EdgeOf(shapes[n]))
         ELSE BezierEdgesOfPrefix(n - 1)

\* C8: a direct bspline call with a list of other than 4 points fails its
\* assertion with no kernel object built; with exactly 4 points it gives a
\* curve of degree 3 whose poles are the points in the given order, knots
\* (0, 1), multiplicities (4, 4) summing to poles + degree + 1 = 8; and the
\* Bezier dispatch of convert_shape always gets such a curve over the mapped
\* start, control1, control2, end, so that no invocation ends in the
\* assertion failure.
C8_BsplineFourPoints ==
    /\ curve.called =>
          IF Len(curve.points) # 4
          THEN /\ ~curve.out.ok
               /\ curve.out.err = "AssertionError"
               /\ curve.out.built = <<>>
          ELSE /\ curve.out.ok
               /\ LET e == curve.out.edge
                  IN /\ e.degree = 3
                     /\ e.pts = curve.points
                     /\ e.knots = <<0, 1>>
                     /\ e.mults = <<4, 4>>
                     /\ e.mults[1] + e.mults[2] = Len(e.pts) + e.degree + 1
                     /\ e.mults[1] + e.mults[2] = 8
    /\ InCall => BsplineEdges(sketch) = BezierEdgesOfPrefix(i - 1)
    /\ pc = "raised" => result.type # "AssertionError"

C8_Witness ==
    /\ pc = "curve"
    /\ curve.called
    /\ Len(curve.points) = 4
    /\ curve.points[1] # curve.points[4]
    /\ curve.out.ok

C3_FailsAtFirstUnsupported ==
    InCall /\ HasUnsupported =>
        /\ pc \in {"loop", "raised"}
        /\ i <= FirstUnsupported
        /\ emitted = <<>>
        /\ closures = 0
        /\ result.kind # "sketch"
        /\ pc = "raised" =>
              /\ i = FirstUnsupported
              /\ result = Raised("NotImplementedError", shapes[FirstUnsupported].kind)

(* ================================ C7 =================================== *)
PolyAt(k) == shapes[k].kind = "POLY"

\* C7: dispatching a Polygon never fails, whatever its vertex count: the only
\* error an invocation ends in is the unsupported-kind error; each Polygon
\* dispatched has left one polygon region whose ring is its mapped vertices
\* in order followed by the first one again, and has added one to full.
C7_PolygonNeverFails ==
    /\ pc = "raised" =>
          /\ ~PolyAt(i)
          /\ result.type = "NotImplementedError"
    /\ InCall =>
          \A k \in 1..(i - 1) :
              PolyAt(k) =>
                  \E f \in FacesOfKind(sketch, "polygon") :
                      LET ring == f.region.dims
                          n == Len(shapes[k].verts)
                      IN /\ Len(ring) = n + 1
                         /\ \A j \in 1..n : ring[j] = MapOf(shapes[k].verts[j])
                         /\ ring[n + 1] = ring[1]
    /\ pc \in {"loop", "warn1", "warn2", "ret", "done"} => full = NumFull(i - 1)

(* ================================ C9 =================================== *)
\* C9: for an input of FULL shapes only, the returned sketch is the union of
\* the regions each shape gives when it is dispatched first, placed by the
\* shape's own fields alone (so it is the same for every order of the
\* input): a location selected while an earlier Circle or Rect was emitted
\* does not move the region of a later shape.
C9_FullRegionsPlacedByOwnFields ==
    pc = "done" /\ ~HasOpen(Len(shapes)) =>
        result.sketch.faces = { OwnFace(shapes[k]) : k \in 1..Len(shapes) }

(* ================================ C10 ================================== *)
\* C10: what an invocation gives (its sketch or error, and the advisories
\* that reach warn_with_traceback) is decided by its own shape list and the
\* origin, whatever was converted before in the process: every invocation
\* that returns has had delivered exactly the advisories its input calls for.
C10_OutcomeDependsOnInputOnly ==
    pc = "done" =>
        delivered = AdvisoriesFor(NumFull(Len(shapes)), HasOpen(Len(shapes)))

====
